---- MODULE Spec2Model ----
(***************************************************************************)
(* A model of the audio_classifier experiment scripts:                     *)
(*   script/validate/bias_variance.py      (codebook fitting, classifiers, *)
(*                                           single-audio inference)       *)
(*   script/train/feature_engineering/feature_common.py                    *)
(*   audio_classifier/train/collate/preprocessing/spectrogram/transform.py *)
(*   script/train/classification/svm/baseline/pca_proj.py                  *)
(* The numerical collaborators (spectrogram math, spherical k-means, the   *)
(* elbow visualizer, PCA/SVC, the data loader) are outside the repository  *)
(* sources modelled here; their results are nondeterministic choices.      *)
(***************************************************************************)
EXTENDS Integers, Sequences, FiniteSets, TLC

(* ------------------------------ bounds -------------------------------- *)
\* most files of a dataset
MaxFiles == 2
\* labels are 0..MaxLabel
MaxLabel == 1
\* most slices of one file
MaxSlices == 2
\* loader_config.batch_size
BatchSize == 1
\* configs.k_min, configs.k_max, configs.k_step of the elbow sweep
k_min == 2
k_max == 4
k_step == 1
\* most entries of configs.k_vals (fixed-k mode)
MaxKVals == 3
\* quality scores of the elbow curve are 1..MaxScore
MaxScore == 1
\* classifier predictions are 0..MaxClass
MaxClass == 2
\* longest prediction sequence taken in every order
MaxPermLen == 3
\* longest prediction sequence (taken class by class)
MaxPreds == 12
\* most (filename, waveform, label) tuples of a collate batch
MaxBatch == 2
\* filenames are 1..MaxName
MaxName == 2
\* config.sample_rate is 1..MaxRate
MaxRate == 2
\* config.freq_max is -1..MaxFreq
MaxFreq == 1
\* dataset_config.k_folds is 0..MaxFolds
MaxFolds == 3

(* ------------------------------ helpers ------------------------------- *)
Min(a, b) == IF a < b THEN a ELSE b

Range(s) == {s[i] : i \in 1..Len(s)}

\* all sequences over S of length 0..n
SeqsUpTo(S, n) == UNION {[1..m -> S] : m \in 0..n}

RECURSIVE Concat(_)
\* concatenation of a sequence of sequences
Concat(ss) == IF ss = <<>> THEN <<>> ELSE Head(ss) \o Concat(Tail(ss))

\* [x] * n
Repeat(x, n) == [i \in 1..n |-> x]

RECURSIVE SortedSeq(_)
\* the elements of a finite set of integers in ascending order
SortedSeq(S) ==
    IF S = {} THEN <<>>
    ELSE LET m == CHOOSE x \in S : \A y \in S : x <= y
         IN <<m>> \o SortedSeq(S \ {m})

\* variant: the array itself, duplicates kept
np_unique_keep_duplicates(a) == a

\* np.unique: the sorted distinct values of an array
np_unique(a) == SortedSeq(Range(a))

\* range(k_min, k_max, k_step)
RECURSIVE py_range(_, _, _)
py_range(lo, hi, step) ==
    IF lo >= hi THEN <<>> ELSE <<lo>> \o py_range(lo + step, hi, step)

(* ---------------------------- data model ------------------------------ *)
Labels == 0..MaxLabel

\* A slice is identified by the file it was cut from and its position there.
\* SliceDataset (sample_freqs and sample_times are carried along untouched
\* by every function modelled here and are left out).
MakeSliceDataset(labels, counts) ==
    [filenames   |-> [i \in 1..Len(labels) |-> i],
     flat_slices |-> [i \in 1..Len(counts) |-> [j \in 1..counts[i] |-> <<i, j>>]],
     labels      |-> labels]

\* the datasets the loader pipeline delivers: one label and at least one
\* slice per file (the slice stage yields no empty slice list)
SliceDatasets ==
    UNION {{MakeSliceDataset(l, c) : l \in [1..n -> Labels], c \in [1..n -> 1..MaxSlices]}
           : n \in 0..MaxFiles}

EmptyDataset == MakeSliceDataset(<<>>, <<>>)

\* every SliceDataset a caller can construct: the dataclass checks nothing,
\* so labels and flat_slices may differ in length and a file may have no slice
AnySliceDatasets ==
    UNION {{MakeSliceDataset(l, c) : l \in [1..m -> Labels], c \in [1..n -> 0..MaxSlices]}
           : m \in 0..MaxFiles, n \in 0..MaxFiles}

RECURSIVE ZipExtend(_, _, _)
\* the zip loop of convert_to_ndarray from pair i on: zip stops at the
\* shorter of labels and flat_slices
ZipExtend(sd, i, acc) ==
    IF i > Min(Len(sd.labels), Len(sd.flat_slices)) THEN acc
    ELSE ZipExtend(sd, i + 1,
                   [slices |-> acc.slices \o sd.flat_slices[i],
                    labels |-> acc.labels \o Repeat(sd.labels[i], Len(sd.flat_slices[i]))])

\* variant: labels_seq gets one entry per file instead of one per slice
convert_to_ndarray_append_label(sd) ==
    IF Len(sd.labels) # Len(sd.flat_slices)
    THEN [raised |-> TRUE, slices |-> <<>>, labels |-> <<>>]
    ELSE LET r == ZipExtend(sd, 1, [slices |-> <<>>, labels |-> <<>>])
         IN [raised |-> FALSE, slices |-> r.slices, labels |-> sd.labels]

\* variant: no assertion, the zip loop pairs up what it can
convert_to_ndarray_no_assert(sd) ==
    LET r == ZipExtend(sd, 1, [slices |-> <<>>, labels |-> <<>>])
    IN [raised |-> FALSE, slices |-> r.slices, labels |-> r.labels]

\* convert_to_ndarray: the assertion, then the zip loop
convert_to_ndarray(sd) ==
    IF Len(sd.labels) # Len(sd.flat_slices)
    THEN [raised |-> TRUE, slices |-> <<>>, labels |-> <<>>]
    ELSE LET r == ZipExtend(sd, 1, [slices |-> <<>>, labels |-> <<>>])
         IN [raised |-> FALSE, slices |-> r.slices, labels |-> r.labels]

(* ----------------------- spectrogram collate -------------------------- *)
\* a batch from the sound wave loader: tuples (filename, sound_wave, label);
\* the waveforms of a batch are told apart by their position
CollateBatches ==
    UNION {{[i \in 1..n |-> <<names[i], i, labs[i]>>] :
                names \in [1..n -> 1..MaxName], labs \in [1..n -> Labels]}
           : n \in 0..MaxBatch}

\* MelSpecConfig: the two fields the collate function computes with; n_fft,
\* n_mels, freq_min, window_size, hop_size and apply_log are handed on as
\* they are
MelSpecConfigs == [sample_rate : 1..MaxRate, freq_max : (-1)..MaxFreq]

\* STFTSpecConfig
STFTSpecConfigs == [sample_rate : 1..MaxRate]

\* a float, kept as the fraction num / den
Float(n, d) == [num |-> n, den |-> d]

\* variant: a freq_max of 0 is taken as given
EffectiveFreqMaxZeroKept(cfg) ==
    IF cfg.freq_max >= 0 THEN Float(cfg.freq_max, 1)
    ELSE Float(cfg.sample_rate, 2)

\* freq_max = config.freq_max if config.freq_max > 0.0 else config.sample_rate / 2.0
EffectiveFreqMax(cfg) ==
    IF cfg.freq_max > 0 THEN Float(cfg.freq_max, 1)
    ELSE Float(cfg.sample_rate, 2)

\* transform.transform_mel_spectrogram: its three results as terms over the
\* arguments that vary here
transform_mel_spectrogram(sound_wave, sample_rate, f_max) ==
    LET args == [sound_wave |-> sound_wave, sample_rate |-> sample_rate, freq_max |-> f_max]
    IN [i \in 1..3 |-> [result |-> <<"mel_spec", "mel_freq", "mel_time">>[i], args |-> args]]

\* transform.transform_stft_spectrogram, likewise
transform_stft_spectrogram(sound_wave, sample_rate) ==
    LET args == [sound_wave |-> sound_wave, sample_rate |-> sample_rate]
    IN [i \in 1..3 |-> [result |-> <<"stft_spec", "stft_freq", "stft_time">>[i], args |-> args]]

\* variant: ret_data.appendleft
DequeAppendLeft(d, x) == <<x>> \o d

\* ret_data.append
DequeAppend(d, x) == Append(d, x)

(* ----------------------- collate pipelines ---------------------------- *)
\* one partially-applied collate function: partial(fn, <keyword>=<argument>)
Stage(f, a) == [fn |-> f, arg |-> a]

\* the collate_funcs list built by try_fit_skms
try_fit_skms_collate_funcs ==
    <<Stage("mel_spectrogram_collate", "configs.mel_spec_config"),
      Stage("slice_flatten_collate", "configs.reshape_config")>>

\* the collate_funcs list built by fit_skms
fit_skms_collate_funcs ==
    <<Stage("mel_spectrogram_collate", "configs.mel_spec_config"),
      Stage("slice_flatten_collate", "configs.reshape_config")>>

\* the collate_funcs list built by train_classifier
train_classifier_collate_funcs ==
    <<Stage("add_white_noise_collate", "configs.sound_wave_augment_config"),
      Stage("mel_spectrogram_collate", "configs.mel_spec_config"),
      Stage("slice_flatten_collate", "configs.reshape_config"),
      Stage("skm_skl_proj_collate", "skms"),
      Stage("pool_collate", "configs.pool_config")>>

\* variant: the validation pipeline built like the training pipeline
val_classifier_collate_funcs_with_noise ==
    <<Stage("add_white_noise_collate", "configs.sound_wave_augment_config"),
      Stage("mel_spectrogram_collate", "configs.mel_spec_config"),
      Stage("slice_flatten_collate", "configs.reshape_config"),
      Stage("skm_skl_proj_collate", "skms"),
      Stage("pool_collate", "configs.pool_config")>>

\* the collate_funcs list built by val_classifier
val_classifier_collate_funcs ==
    <<Stage("mel_spectrogram_collate", "configs.mel_spec_config"),
      Stage("slice_flatten_collate", "configs.reshape_config"),
      Stage("skm_skl_proj_collate", "skms"),
      Stage("pool_collate", "configs.pool_config")>>

\* generate_slice_dataset is handed its collate function by the caller
generate_slice_dataset_collate_funcs == <<Stage("collate_function", "caller")>>

\* the direct calls infer_single_audio makes on its one sound wave, in order
infer_single_audio_stages ==
    <<Stage("transform_mel_spectrogram", "configs.mel_spec_config"),
      Stage("slice_spectrogram", "configs.reshape_config"),
      Stage("flatten_slice", "copy"),
      Stage("proj_skl_skm", "skms"),
      Stage("apply_pool_func", "configs.pool_config")>>

RECURSIVE EnsembleCollateFunction(_, _)
\* the composed collate function: the stages in list order, each on the
\* result of the one before; a stage leaves its mark on the batch
EnsembleCollateFunction(funcs, batch) ==
    IF funcs = <<>> THEN batch
    ELSE EnsembleCollateFunction(Tail(funcs),
                                 [batch EXCEPT !.applied = Append(@, Head(funcs))])

\* number of batches the DataLoader yields for n files
NumBatches(n) == (n + BatchSize - 1) \div BatchSize

\* the b-th batch of the DataLoader, before the collate function
LoaderBatch(ds, b) ==
    LET lo == (b - 1) * BatchSize + 1
        hi == Min(b * BatchSize, Len(ds.labels))
    IN [filenames   |-> SubSeq(ds.filenames, lo, hi),
        flat_slices |-> SubSeq(ds.flat_slices, lo, hi),
        labels      |-> SubSeq(ds.labels, lo, hi),
        applied     |-> <<>>]

\* batch_utils.combine_batches: the batches' columns joined in batch order
combine_batches(bs) ==
    [filenames   |-> Concat([i \in 1..Len(bs) |-> bs[i].filenames]),
     flat_slices |-> Concat([i \in 1..Len(bs) |-> bs[i].flat_slices]),
     labels      |-> Concat([i \in 1..Len(bs) |-> bs[i].labels])]

(* ------------------------- elbow search, k ---------------------------- *)
KRange == py_range(k_min, k_max, k_step)

\* elbow_value_ is None (the empty sequence here) or one k of the range;
\* k_scores_ holds one score per k of the range
ElbowOutcomes ==
    [elbow_value_ : {<<>>} \cup {<<KRange[i]>> : i \in 1..Len(KRange)},
     k_scores_    : [1..Len(KRange) -> 1..MaxScore]]

\* the values configs.k_vals may hold in fixed-k mode
KValsConfigs == SeqsUpTo(Range(KRange), MaxKVals)

\* a SphericalKMeans after fit: its n_clusters, the array it was fitted on
\* and the loop's curr_label at the time of the fit
FittedSkm(k, fit_on, label) == [n_clusters |-> k, fit_data |-> fit_on, curr_label |-> label]

(* ----------------------- single-audio inference ----------------------- *)
Max(a, b) == IF a > b THEN a ELSE b

RECURSIVE SeqMax(_)
SeqMax(s) == IF s = <<>> THEN -1 ELSE Max(Head(s), SeqMax(Tail(s)))

\* np.bincount(x, minlength): entry c + 1 here is numpy's entry c, the
\* number of occurrences of c; the length is max(minlength, max(x) + 1)
np_bincount(x, minlength) ==
    [c \in 1..Max(minlength, SeqMax(x) + 1) |->
        Cardinality({i \in DOMAIN x : x[i] = c - 1})]

\* variant: the share of class 1 instead of class 0
infer_single_audio_result_class1(pred_seq) ==
    LET res == np_bincount(pred_seq, 2)
    IN [num |-> res[2], den |-> res[1] + res[2]]

\* variant: the class-0 count over the number of predictions
infer_single_audio_result_by_total(pred_seq) ==
    LET res == np_bincount(pred_seq, 2)
    IN [num |-> res[1], den |-> Len(pred_seq)]

\* the value infer_single_audio returns, kept as the fraction num / den
\* (den = 0: the division 0 / 0)
infer_single_audio_result(pred_seq) ==
    LET res == np_bincount(pred_seq, 2)
    IN [num |-> res[1], den |-> res[1] + res[2]]

\* the prediction sequence with cnt[c] predictions of class c, class by class
BlockPred(cnt) == Concat([c \in 1..(MaxClass + 1) |-> Repeat(c - 1, cnt[c - 1])])

RECURSIVE SumTo(_, _)
SumTo(cnt, c) == IF c < 0 THEN 0 ELSE cnt[c] + SumTo(cnt, c - 1)

\* what classifier.predict may return: every short sequence, and every
\* longer one up to the order of its entries
PredInputs ==
    SeqsUpTo(0..MaxClass, MaxPermLen)
    \cup {BlockPred(cnt) : cnt \in {c \in [0..MaxClass -> 0..MaxPreds] : SumTo(c, MaxClass) <= MaxPreds}}

(* ------------------------------ state --------------------------------- *)
VARIABLES
    pc,             \* "idle" (between calls), "loading" (inside the batch loop),
                    \* "fitting" (the per-label loop), "returned", "raised"
    fn,             \* the function running, or the one that ran last
    errDivide,      \* numpy's process-wide divide-by-zero mode
    preDivide,      \* errDivide when the current call was made
    dataset,        \* the files the loader of the current call delivers
    cfg_k_vals,     \* configs.k_vals (fit_skms)
    collate_funcs,  \* the stage list of the current call
    batches_tmp,    \* the batches materialized so far
    slices,         \* convert_to_ndarray's slices
    labels,         \* convert_to_ndarray's labels
    unique_labels,  \* np.unique(labels)
    idx,            \* position of the per-label loop in unique_labels
    skms,           \* the fitted codebooks
    k_vals,         \* try_fit_skms: k per label
    k_scores,       \* try_fit_skms: score list per label
    visualizers,    \* try_fit_skms: the elbow visualizer of each iteration, after fit
    pred,           \* infer_single_audio: classifier.predict's result
    applied,        \* infer_single_audio: the processing steps run, in order
    confidence,     \* infer_single_audio: the value returned
    configs,        \* infer_single_audio: the configs argument (its mel_spec_config)
    mel_spec,       \* infer_single_audio: the Mel spectrogram of the test audio
    data,           \* spectrogram collate: the batch passed in
    config,         \* spectrogram collate: the configuration object
    config_before,  \* spectrogram collate: config as it was when passed in
    freq_max,       \* mel_spectrogram_collate: the local freq_max
    ret_data,       \* spectrogram collate: the deque returned
    k_folds,        \* pca_proj main: dataset_config.k_folds
    n_classes,      \* pca_proj main: dataset_config.n_classes
    curr_val_fold,  \* pca_proj main: the loop variable
    main_step,      \* pca_proj main: position of the next call in the loop body, 1..6
    steps,          \* pca_proj main: the calls made by the loop so far, in order
    train,          \* pca_proj main: the locals of the loop body
    val,
    pca,
    train_slices,
    train_labels,
    svc,
    val_slices,
    val_labels

vars == <<pc, fn, errDivide, preDivide, dataset, cfg_k_vals, collate_funcs,
          batches_tmp, slices, labels, unique_labels, idx, skms, k_vals, k_scores,
          visualizers, pred, applied, confidence, configs, mel_spec,
          data, config, config_before, freq_max, ret_data,
          k_folds, n_classes, curr_val_fold, main_step, steps,
          train, val, pca, train_slices, train_labels, svc, val_slices, val_labels>>

mainLocals == <<train, val, pca, train_slices, train_labels, svc, val_slices, val_labels>>

mainVars == <<k_folds, n_classes, curr_val_fold, main_step, steps,
              train, val, pca, train_slices, train_labels, svc, val_slices, val_labels>>

\* the value a call of a function outside this module returns: the function,
\* which of its results it is, the fold of the call, and the arguments
Term(f, o, fold, kw, args) ==
    [call |-> f, out |-> o, fold |-> fold, kw |-> kw, args |-> args]

\* a local that is not bound yet
NoTerm == Term("none", "none", -1, <<>>, <<>>)

collateVars == <<data, config, config_before, freq_max, ret_data>>

NoConfig == [sample_rate |-> 0]

NoFloat == Float(0, 0)

inferVars == <<pred, applied, confidence, configs, mel_spec>>

NoConfigs == [mel_spec_config |-> NoConfig]

NoMelSpec == [result |-> "none"]

NoConfidence == [num |-> 0, den |-> 0]

fitVars == <<slices, labels, unique_labels, idx, skms, k_vals, k_scores, visualizers>>

Init ==
    /\ pc = "idle"
    /\ fn = "none"
    /\ errDivide = "warn"
    /\ preDivide = "warn"
    /\ dataset = EmptyDataset
    /\ cfg_k_vals = <<>>
    /\ collate_funcs = <<>>
    /\ batches_tmp = <<>>
    /\ slices = <<>>
    /\ labels = <<>>
    /\ unique_labels = <<>>
    /\ idx = 1
    /\ skms = <<>>
    /\ k_vals = <<>>
    /\ k_scores = <<>>
    /\ visualizers = <<>>
    /\ pred = <<>>
    /\ applied = <<>>
    /\ confidence = NoConfidence
    /\ configs = NoConfigs
    /\ mel_spec = NoMelSpec
    /\ data = <<>>
    /\ config = NoConfig
    /\ config_before = NoConfig
    /\ freq_max = NoFloat
    /\ ret_data = <<>>
    /\ k_folds = 0
    /\ n_classes = 0
    /\ curr_val_fold = 0
    /\ main_step = 1
    /\ steps = <<>>
    /\ train = NoTerm
    /\ val = NoTerm
    /\ pca = NoTerm
    /\ train_slices = NoTerm
    /\ train_labels = NoTerm
    /\ svc = NoTerm
    /\ val_slices = NoTerm
    /\ val_labels = NoTerm

(* ------------------- entering a batch-loading function ---------------- *)
\* the code of a function up to its batch loop: build the collate list and
\* the loader, np.seterr(divide="ignore")
EnterBatchLoop(f, ds, kv, funcs) ==
    /\ pc = "idle"
    /\ pc' = "loading"
    /\ fn' = f
    /\ preDivide' = errDivide
    /\ errDivide' = "ignore"
    /\ dataset' = ds
    /\ cfg_k_vals' = kv
    /\ collate_funcs' = funcs
    /\ batches_tmp' = <<>>
    /\ slices' = <<>>
    /\ labels' = <<>>
    /\ unique_labels' = <<>>
    /\ idx' = 1
    /\ skms' = <<>>
    /\ k_vals' = <<>>
    /\ k_scores' = <<>>
    /\ visualizers' = <<>>
    /\ pred' = <<>>
    /\ applied' = <<>>
    /\ confidence' = NoConfidence
    /\ configs' = NoConfigs
    /\ mel_spec' = NoMelSpec
    /\ UNCHANGED collateVars
    /\ UNCHANGED mainVars

generate_slice_dataset_call ==
    /\ pc = "idle"
    /\ \E ds \in SliceDatasets :
        EnterBatchLoop("generate_slice_dataset", ds, <<>>, generate_slice_dataset_collate_funcs)

try_fit_skms_call ==
    /\ pc = "idle"
    /\ \E ds \in SliceDatasets :
        EnterBatchLoop("try_fit_skms", ds, <<>>, try_fit_skms_collate_funcs)

fit_skms_call ==
    /\ pc = "idle"
    /\ \E ds \in SliceDatasets, kv \in KValsConfigs :
        EnterBatchLoop("fit_skms", ds, kv, fit_skms_collate_funcs)

train_classifier_call ==
    /\ pc = "idle"
    /\ \E ds \in SliceDatasets :
        EnterBatchLoop("train_classifier", ds, <<>>, train_classifier_collate_funcs)

val_classifier_call ==
    /\ pc = "idle"
    /\ \E ds \in SliceDatasets :
        EnterBatchLoop("val_classifier", ds, <<>>, val_classifier_collate_funcs)

(* --------------------------- the batch loop --------------------------- *)
\* one iteration of `for batch in loader: batches_tmp.append(batch)`
LoadBatch ==
    /\ pc = "loading"
    /\ Len(batches_tmp) < NumBatches(Len(dataset.labels))
    /\ batches_tmp' = Append(batches_tmp,
           EnsembleCollateFunction(collate_funcs, LoaderBatch(dataset, Len(batches_tmp) + 1)))
    /\ UNCHANGED <<pc, fn, errDivide, preDivide, dataset, cfg_k_vals, collate_funcs>>
    /\ UNCHANGED fitVars
    /\ UNCHANGED inferVars
    /\ UNCHANGED mainVars
    /\ UNCHANGED collateVars

\* the loader (file read, a collate stage) raises: none of the functions
\* has a handler, the exception leaves the function from inside the loop
RaiseInLoad ==
    /\ pc = "loading"
    /\ Len(batches_tmp) < NumBatches(Len(dataset.labels))
    /\ pc' = "raised"
    /\ UNCHANGED <<fn, errDivide, preDivide, dataset, cfg_k_vals, collate_funcs, batches_tmp>>
    /\ UNCHANGED fitVars
    /\ UNCHANGED inferVars
    /\ UNCHANGED mainVars
    /\ UNCHANGED collateVars

\* the np.seterr call that follows the batch loop
DivideAfterLoop(f) == IF f = "generate_slice_dataset" THEN "warn" ELSE "ignore"

LoopDone == pc = "loading" /\ Len(batches_tmp) = NumBatches(Len(dataset.labels))

\* generate_slice_dataset, train_classifier, val_classifier after the loop:
\* np.seterr, then the datasets are wrapped / PCA+SVC fitted / scored
FinishAfterLoop(f) ==
    /\ LoopDone
    /\ fn = f
    /\ errDivide' = DivideAfterLoop(f)
    /\ pc' = "returned"
    /\ UNCHANGED <<fn, preDivide, dataset, cfg_k_vals, collate_funcs, batches_tmp>>
    /\ UNCHANGED fitVars
    /\ UNCHANGED inferVars
    /\ UNCHANGED mainVars
    /\ UNCHANGED collateVars

generate_slice_dataset_return == FinishAfterLoop("generate_slice_dataset")

train_classifier_return == FinishAfterLoop("train_classifier")

val_classifier_return == FinishAfterLoop("val_classifier")

(* ------------------------ try_fit_skms, fit_skms ---------------------- *)
\* after the loop: np.seterr, combine_batches, convert_to_ndarray, np.unique
ConvertAfterLoop(f) ==
    /\ LoopDone
    /\ fn = f
    /\ errDivide' = DivideAfterLoop(f)
    /\ LET nd == convert_to_ndarray(combine_batches(batches_tmp))
       IN IF nd.raised
          THEN /\ pc' = "raised"
               /\ UNCHANGED <<slices, labels, unique_labels>>
          ELSE /\ pc' = "fitting"
               /\ slices' = nd.slices
               /\ labels' = nd.labels
               /\ unique_labels' = np_unique(nd.labels)
    /\ UNCHANGED <<fn, preDivide, dataset, cfg_k_vals, collate_funcs, batches_tmp,
                   idx, skms, k_vals, k_scores, visualizers>>
    /\ UNCHANGED inferVars
    /\ UNCHANGED mainVars
    /\ UNCHANGED collateVars

try_fit_skms_convert == ConvertAfterLoop("try_fit_skms")

fit_skms_convert == ConvertAfterLoop("fit_skms")

\* the array the elbow search and the codebook of curr_label are fitted on
FitData(all_slices, all_labels, curr_label) == all_slices

\* variant: the no-elbow branch does not `continue` and a codebook is
\* fitted with the -1 it recorded
try_fit_skms_label_no_continue ==
    /\ pc = "fitting"
    /\ fn = "try_fit_skms"
    /\ idx <= Len(unique_labels)
    /\ \E vis \in ElbowOutcomes :
        LET curr_label == unique_labels[idx]
            fit_on == FitData(slices, labels, curr_label)
            k_val == IF vis.elbow_value_ = <<>> THEN -1 ELSE vis.elbow_value_[1]
        IN /\ visualizers' = Append(visualizers,
                  [curr_label |-> curr_label, fit_data |-> fit_on,
                   elbow_value_ |-> vis.elbow_value_, k_scores_ |-> vis.k_scores_])
           /\ k_scores' = Append(k_scores,
                  IF vis.elbow_value_ = <<>> THEN <<>> ELSE vis.k_scores_)
           /\ k_vals' = Append(k_vals, k_val)
           /\ skms' = Append(skms, FittedSkm(k_val, fit_on, curr_label))
    /\ idx' = idx + 1
    /\ UNCHANGED <<pc, fn, errDivide, preDivide, dataset, cfg_k_vals, collate_funcs,
                   batches_tmp, slices, labels, unique_labels>>
    /\ UNCHANGED inferVars
    /\ UNCHANGED mainVars
    /\ UNCHANGED collateVars

\* one iteration of try_fit_skms' loop over unique_labels
try_fit_skms_label ==
    /\ pc = "fitting"
    /\ fn = "try_fit_skms"
    /\ idx <= Len(unique_labels)
    /\ \E vis \in ElbowOutcomes :
        LET curr_label == unique_labels[idx]
            fit_on == FitData(slices, labels, curr_label)
        IN /\ visualizers' = Append(visualizers,
                  [curr_label |-> curr_label, fit_data |-> fit_on,
                   elbow_value_ |-> vis.elbow_value_, k_scores_ |-> vis.k_scores_])
           /\ IF vis.elbow_value_ = <<>>
              THEN /\ k_scores' = Append(k_scores, <<>>)
                   /\ k_vals' = Append(k_vals, -1)
                   /\ skms' = skms
              ELSE /\ k_scores' = Append(k_scores, vis.k_scores_)
                   /\ k_vals' = Append(k_vals, vis.elbow_value_[1])
                   /\ skms' = Append(skms, FittedSkm(vis.elbow_value_[1], fit_on, curr_label))
    /\ idx' = idx + 1
    /\ UNCHANGED <<pc, fn, errDivide, preDivide, dataset, cfg_k_vals, collate_funcs,
                   batches_tmp, slices, labels, unique_labels>>
    /\ UNCHANGED inferVars
    /\ UNCHANGED mainVars
    /\ UNCHANGED collateVars

\* number of iterations of `for curr_label, k_val in zip(unique_labels, configs.k_vals)`
FitSkmsIterations(ul, kv) == Min(Len(ul), Len(kv))

\* one iteration of fit_skms' loop
fit_skms_label ==
    /\ pc = "fitting"
    /\ fn = "fit_skms"
    /\ idx <= FitSkmsIterations(unique_labels, cfg_k_vals)
    /\ LET curr_label == unique_labels[idx]
       IN skms' = Append(skms, FittedSkm(cfg_k_vals[idx],
                                         FitData(slices, labels, curr_label), curr_label))
    /\ idx' = idx + 1
    /\ UNCHANGED <<pc, fn, errDivide, preDivide, dataset, cfg_k_vals, collate_funcs,
                   batches_tmp, slices, labels, unique_labels, k_vals, k_scores, visualizers>>
    /\ UNCHANGED inferVars
    /\ UNCHANGED mainVars
    /\ UNCHANGED collateVars

try_fit_skms_return ==
    /\ pc = "fitting"
    /\ fn = "try_fit_skms"
    /\ idx > Len(unique_labels)
    /\ pc' = "returned"
    /\ UNCHANGED <<fn, errDivide, preDivide, dataset, cfg_k_vals, collate_funcs, batches_tmp>>
    /\ UNCHANGED fitVars
    /\ UNCHANGED inferVars
    /\ UNCHANGED mainVars
    /\ UNCHANGED collateVars

fit_skms_return ==
    /\ pc = "fitting"
    /\ fn = "fit_skms"
    /\ idx > FitSkmsIterations(unique_labels, cfg_k_vals)
    /\ pc' = "returned"
    /\ UNCHANGED <<fn, errDivide, preDivide, dataset, cfg_k_vals, collate_funcs, batches_tmp>>
    /\ UNCHANGED fitVars
    /\ UNCHANGED inferVars
    /\ UNCHANGED mainVars
    /\ UNCHANGED collateVars

(* -------------------------- convert_to_ndarray ------------------------ *)
\* a direct call of feature_common.convert_to_ndarray
convert_to_ndarray_call ==
    /\ pc = "idle"
    /\ \E sd \in AnySliceDatasets :
        LET nd == convert_to_ndarray(sd)
        IN /\ dataset' = sd
           /\ pc' = IF nd.raised THEN "raised" ELSE "returned"
           /\ slices' = nd.slices
           /\ labels' = nd.labels
    /\ fn' = "convert_to_ndarray"
    /\ preDivide' = errDivide
    /\ UNCHANGED <<errDivide, cfg_k_vals, collate_funcs, batches_tmp, unique_labels, idx,
                   skms, k_vals, k_scores, visualizers>>
    /\ UNCHANGED inferVars
    /\ UNCHANGED mainVars
    /\ UNCHANGED collateVars

(* -------------------------- infer_single_audio ------------------------ *)
\* the freq_max keyword infer_single_audio hands to transform_mel_spectrogram
InferFreqMax(cfg) == Float(cfg.freq_max, 1)

\* the whole function: load, Mel transform, slice, flatten, project, pool,
\* predict, bincount, divide; it has no batch loop and leaves numpy's
\* error modes alone
infer_single_audio ==
    /\ pc = "idle"
    /\ \E c \in MelSpecConfigs :
        /\ configs' = [mel_spec_config |-> c]
        /\ mel_spec' = transform_mel_spectrogram("configs.test_audio_path", c.sample_rate,
                                                 InferFreqMax(c))[1]
    /\ \E p \in PredInputs :
        /\ pred' = p
        /\ confidence' = infer_single_audio_result(p)
    /\ applied' = infer_single_audio_stages
    /\ fn' = "infer_single_audio"
    /\ pc' = "returned"
    /\ preDivide' = errDivide
    /\ dataset' = EmptyDataset
    /\ cfg_k_vals' = <<>>
    /\ collate_funcs' = <<>>
    /\ batches_tmp' = <<>>
    /\ slices' = <<>>
    /\ labels' = <<>>
    /\ unique_labels' = <<>>
    /\ idx' = 1
    /\ skms' = <<>>
    /\ k_vals' = <<>>
    /\ k_scores' = <<>>
    /\ visualizers' = <<>>
    /\ UNCHANGED errDivide
    /\ UNCHANGED collateVars
    /\ UNCHANGED mainVars

\* a call has returned: its caller goes on and the frame's locals are gone.
\* (An exception is handled nowhere: it ends the script.)
CallerContinues ==
    /\ pc = "returned"
    /\ pc' = "idle"
    /\ dataset' = EmptyDataset
    /\ cfg_k_vals' = <<>>
    /\ collate_funcs' = <<>>
    /\ batches_tmp' = <<>>
    /\ slices' = <<>>
    /\ labels' = <<>>
    /\ unique_labels' = <<>>
    /\ idx' = 1
    /\ skms' = <<>>
    /\ k_vals' = <<>>
    /\ k_scores' = <<>>
    /\ visualizers' = <<>>
    /\ pred' = <<>>
    /\ applied' = <<>>
    /\ confidence' = NoConfidence
    /\ configs' = NoConfigs
    /\ mel_spec' = NoMelSpec
    /\ data' = <<>>
    /\ config' = NoConfig
    /\ config_before' = NoConfig
    /\ freq_max' = NoFloat
    /\ ret_data' = <<>>
    /\ UNCHANGED <<fn, errDivide, preDivide>>
    /\ UNCHANGED mainVars

Next ==
    \/ generate_slice_dataset_call
    \/ try_fit_skms_call
    \/ fit_skms_call
    \/ train_classifier_call
    \/ val_classifier_call
    \/ LoadBatch
    \/ RaiseInLoad
    \/ generate_slice_dataset_return
    \/ train_classifier_return
    \/ val_classifier_return
    \/ try_fit_skms_convert
    \/ fit_skms_convert
    \/ try_fit_skms_label
    \/ fit_skms_label
    \/ try_fit_skms_return
    \/ fit_skms_return
    \/ convert_to_ndarray_call
    \/ infer_single_audio
    \/ CallerContinues

Spec == Init /\ [][Next]_vars

(* ------------- stft_spectrogram_collate, mel_spectrogram_collate ------ *)
batchVars == <<errDivide, preDivide, dataset, cfg_k_vals, collate_funcs, batches_tmp>>

\* mel_spectrogram_collate up to its loop: the deque, the local freq_max
mel_spectrogram_collate_call ==
    /\ pc = "idle"
    /\ \E d \in CollateBatches, c \in MelSpecConfigs :
        /\ data' = d
        /\ config' = c
        /\ config_before' = c
        /\ freq_max' = EffectiveFreqMax(c)
    /\ ret_data' = <<>>
    /\ fn' = "mel_spectrogram_collate"
    /\ pc' = "collating"
    /\ UNCHANGED batchVars
    /\ UNCHANGED fitVars
    /\ UNCHANGED inferVars
    /\ UNCHANGED mainVars

\* one iteration of `for filename, sound_wave, label in data`
mel_spectrogram_collate_item ==
    /\ pc = "collating"
    /\ fn = "mel_spectrogram_collate"
    /\ Len(ret_data) < Len(data)
    /\ LET item == data[Len(ret_data) + 1]
           mel == transform_mel_spectrogram(item[2], config.sample_rate, freq_max)
       IN ret_data' = DequeAppend(ret_data, <<item[1], mel[1], mel[2], mel[3], item[3]>>)
    /\ UNCHANGED <<pc, fn, data, config, config_before, freq_max>>
    /\ UNCHANGED batchVars
    /\ UNCHANGED fitVars
    /\ UNCHANGED inferVars
    /\ UNCHANGED mainVars

\* stft_spectrogram_collate up to its loop
stft_spectrogram_collate_call ==
    /\ pc = "idle"
    /\ \E d \in CollateBatches, c \in STFTSpecConfigs :
        /\ data' = d
        /\ config' = c
        /\ config_before' = c
    /\ freq_max' = NoFloat
    /\ ret_data' = <<>>
    /\ fn' = "stft_spectrogram_collate"
    /\ pc' = "collating"
    /\ UNCHANGED batchVars
    /\ UNCHANGED fitVars
    /\ UNCHANGED inferVars
    /\ UNCHANGED mainVars

\* one iteration of `for filename, sound_wave, label in data`
stft_spectrogram_collate_item ==
    /\ pc = "collating"
    /\ fn = "stft_spectrogram_collate"
    /\ Len(ret_data) < Len(data)
    /\ LET item == data[Len(ret_data) + 1]
           stft == transform_stft_spectrogram(item[2], config.sample_rate)
       IN ret_data' = DequeAppend(ret_data, <<item[1], stft[1], stft[2], stft[3], item[3]>>)
    /\ UNCHANGED <<pc, fn, data, config, config_before, freq_max>>
    /\ UNCHANGED batchVars
    /\ UNCHANGED fitVars
    /\ UNCHANGED inferVars
    /\ UNCHANGED mainVars

\* `return ret_data` of either function
spectrogram_collate_return ==
    /\ pc = "collating"
    /\ Len(ret_data) = Len(data)
    /\ pc' = "returned"
    /\ UNCHANGED <<fn, data, config, config_before, freq_max, ret_data>>
    /\ UNCHANGED batchVars
    /\ UNCHANGED fitVars
    /\ UNCHANGED inferVars
    /\ UNCHANGED mainVars

NextCollate ==
    \/ mel_spectrogram_collate_call
    \/ mel_spectrogram_collate_item
    \/ stft_spectrogram_collate_call
    \/ stft_spectrogram_collate_item
    \/ spectrogram_collate_return
    \/ CallerContinues

\* the two spectrogram collate functions, called on their own
SpecCollate == Init /\ [][NextCollate]_vars

(* ------------------------- pca_proj.py: main -------------------------- *)
\* dataset_config.n_classes: labels are 0..MaxLabel
NClasses == 1..(MaxLabel + 1)

notMainVars == <<errDivide, preDivide, dataset, cfg_k_vals, collate_funcs, batches_tmp,
                 slices, labels, unique_labels, idx, k_vals, k_scores, visualizers,
                 pred, applied, confidence, configs, mel_spec,
                 data, config, config_before, freq_max, ret_data>>

\* main up to its loop: arguments, export directory, configurations,
\* metadata, dataset generator; any of these may raise
main_call ==
    /\ pc = "idle"
    /\ fn = "none"
    /\ \E K \in 0..MaxFolds, n \in NClasses, ok \in BOOLEAN :
        /\ k_folds' = K
        /\ n_classes' = n
        /\ pc' = IF ok THEN "main" ELSE "raised"
    /\ fn' = "main"
    /\ curr_val_fold' = 0
    /\ main_step' = 1
    /\ steps' = <<>>
    /\ UNCHANGED <<skms>>
    /\ UNCHANGED mainLocals
    /\ UNCHANGED notMainVars

\* the calls of one pass of main's loop body, in program order
FoldCalls == <<"load_skl_skms", "generate_proj_dataset", "fit_transform_pca",
               "train_svc_np", "transform_pca", "report_slices_acc_np">>

\* the i-th call of the loop body is made with the given arguments and
\* returns (ok) or raises; after the sixth call the loop goes to the next fold
MainLoopCall(i, f, kw, args, ok) ==
    /\ pc = "main"
    /\ curr_val_fold < k_folds
    /\ main_step = i
    /\ f = FoldCalls[i]
    /\ steps' = Append(steps, [fold |-> curr_val_fold, call |-> f, kw |-> kw,
                               args |-> args, raised |-> ~ok])
    /\ pc' = IF ok THEN "main" ELSE "raised"
    /\ main_step' = IF ~ok THEN main_step ELSE IF i = Len(FoldCalls) THEN 1 ELSE i + 1
    /\ curr_val_fold' = IF ok /\ i = Len(FoldCalls) THEN curr_val_fold + 1 ELSE curr_val_fold
    /\ UNCHANGED <<fn, k_folds, n_classes>>
    /\ UNCHANGED notMainVars

\* skms = load_skl_skms(path stub of curr_val_fold, n_classes), then the
\* collate function is built around skms
main_load_skl_skms ==
    \E ok \in BOOLEAN :
        /\ MainLoopCall(1, "load_skl_skms", <<curr_val_fold, n_classes>>, <<>>, ok)
        /\ skms' = IF ok THEN Term("load_skl_skms", "skms", curr_val_fold,
                                   <<curr_val_fold, n_classes>>, <<>>)
                         ELSE skms
        /\ UNCHANGED mainLocals

\* train, val = generate_proj_dataset(curr_val_fold, dataset_generator,
\*                                    collate_func, loader_config)
main_generate_proj_dataset ==
    \E ok \in BOOLEAN :
        /\ MainLoopCall(2, "generate_proj_dataset", <<curr_val_fold>>, <<skms>>, ok)
        /\ train' = IF ok THEN Term("generate_proj_dataset", "train", curr_val_fold,
                                    <<curr_val_fold>>, <<skms>>)
                          ELSE train
        /\ val' = IF ok THEN Term("generate_proj_dataset", "val", curr_val_fold,
                                  <<curr_val_fold>>, <<skms>>)
                        ELSE val
        /\ UNCHANGED <<skms, pca, train_slices, train_labels, svc, val_slices, val_labels>>

\* variant: the PCA is fitted on the validation partition
main_fit_transform_pca_on_val ==
    \E ok \in BOOLEAN :
        /\ MainLoopCall(3, "fit_transform_pca", <<curr_val_fold>>, <<val>>, ok)
        /\ pca' = IF ok THEN Term("fit_transform_pca", "pca", curr_val_fold,
                                  <<curr_val_fold>>, <<val>>)
                        ELSE pca
        /\ train_slices' = IF ok THEN Term("fit_transform_pca", "train_slices", curr_val_fold,
                                           <<curr_val_fold>>, <<val>>)
                                 ELSE train_slices
        /\ train_labels' = IF ok THEN Term("fit_transform_pca", "train_labels", curr_val_fold,
                                           <<curr_val_fold>>, <<val>>)
                                 ELSE train_labels
        /\ UNCHANGED <<skms, train, val, svc, val_slices, val_labels>>

\* pca, train_slices, train_labels = fit_transform_pca(curr_val_fold, train,
\*                                                     pca_config, export_path)
main_fit_transform_pca ==
    \E ok \in BOOLEAN :
        /\ MainLoopCall(3, "fit_transform_pca", <<curr_val_fold>>, <<train>>, ok)
        /\ pca' = IF ok THEN Term("fit_transform_pca", "pca", curr_val_fold,
                                  <<curr_val_fold>>, <<train>>)
                        ELSE pca
        /\ train_slices' = IF ok THEN Term("fit_transform_pca", "train_slices", curr_val_fold,
                                           <<curr_val_fold>>, <<train>>)
                                 ELSE train_slices
        /\ train_labels' = IF ok THEN Term("fit_transform_pca", "train_labels", curr_val_fold,
                                           <<curr_val_fold>>, <<train>>)
                                 ELSE train_labels
        /\ UNCHANGED <<skms, train, val, svc, val_slices, val_labels>>

\* svc = train_svc_np(curr_val_fold, train_slices, train_labels, svc_config,
\*                    export_path)
main_train_svc_np ==
    \E ok \in BOOLEAN :
        /\ MainLoopCall(4, "train_svc_np", <<curr_val_fold>>, <<train_slices, train_labels>>, ok)
        /\ svc' = IF ok THEN Term("train_svc_np", "svc", curr_val_fold,
                                  <<curr_val_fold>>, <<train_slices, train_labels>>)
                        ELSE svc
        /\ UNCHANGED <<skms, train, val, pca, train_slices, train_labels, val_slices, val_labels>>

\* val_slices, val_labels = transform_pca(dataset=val, pca=pca)
main_transform_pca ==
    \E ok \in BOOLEAN :
        /\ MainLoopCall(5, "transform_pca", <<>>, <<val, pca>>, ok)
        /\ val_slices' = IF ok THEN Term("transform_pca", "val_slices", curr_val_fold,
                                         <<>>, <<val, pca>>)
                               ELSE val_slices
        /\ val_labels' = IF ok THEN Term("transform_pca", "val_labels", curr_val_fold,
                                         <<>>, <<val, pca>>)
                               ELSE val_labels
        /\ UNCHANGED <<skms, train, val, pca, train_slices, train_labels, svc>>

\* report_slices_acc_np(svc, train_slices, train_labels, val_slices,
\* val_labels); the loop body ends here
main_report_slices_acc_np ==
    \E ok \in BOOLEAN :
        /\ MainLoopCall(6, "report_slices_acc_np", <<>>,
                        <<svc, train_slices, train_labels, val_slices, val_labels>>, ok)
        /\ UNCHANGED <<skms>>
        /\ UNCHANGED mainLocals

\* range(dataset_config.k_folds) is exhausted: main returns
main_return ==
    /\ pc = "main"
    /\ curr_val_fold >= k_folds
    /\ pc' = "returned"
    /\ UNCHANGED <<fn, skms>>
    /\ UNCHANGED mainVars
    /\ UNCHANGED notMainVars

NextMain ==
    \/ main_call
    \/ main_load_skl_skms
    \/ main_generate_proj_dataset
    \/ main_fit_transform_pca
    \/ main_train_svc_np
    \/ main_transform_pca
    \/ main_report_slices_acc_np
    \/ main_return

\* the script runs main once; the interpreter goes from one statement to
\* the next and every call comes back, by returning or by raising
SpecMain == Init /\ [][NextMain]_vars /\ WF_vars(NextMain)

(* ============================ properties ============================== *)
\* the functions that materialize batches under np.seterr(divide="ignore")
BatchFns == {"generate_slice_dataset", "try_fit_skms", "fit_skms",
             "train_classifier", "val_classifier"}

\* the distinct labels of the files of the current call's dataset
DistinctLabels == Range(dataset.labels)

\* the label of the file a slice was cut from
LabelOfSlice(sl) == dataset.labels[sl[1]]

\* positions of codebooks fitted in the iteration for label c
SkmsOf(c) == {j \in 1..Len(skms) : skms[j].curr_label = c}

\* C1: in try_fit_skms every distinct train label, in sorted order, gets
\* exactly one entry of k_vals and one of k_scores; without an elbow the
\* entries are -1 and the empty list, nothing is fitted or appended to skms
\* and no exception is raised; with an elbow the entries are the elbow value
\* and its score list and exactly one codebook with that k is appended. On
\* return len(k_vals) = len(k_scores) = number of distinct labels,
\* k_vals[i] = -1 exactly when k_scores[i] is empty, and len(skms) is the
\* number of entries of k_vals other than -1.
C1_TryFitSkmsEntries ==
    /\ (fn = "try_fit_skms" /\ pc \in {"fitting", "returned"}) =>
        /\ Len(k_vals) = idx - 1
        /\ Len(k_scores) = idx - 1
        /\ Len(visualizers) = idx - 1
        /\ \A i \in 1..Len(k_vals) :
            LET v == visualizers[i]
            IN /\ v.curr_label = SortedSeq(DistinctLabels)[i]
               /\ (k_vals[i] = -1) <=> (k_scores[i] = <<>>)
               /\ v.elbow_value_ = <<>> =>
                    /\ k_vals[i] = -1
                    /\ k_scores[i] = <<>>
                    /\ SkmsOf(v.curr_label) = {}
               /\ v.elbow_value_ # <<>> =>
                    /\ k_vals[i] = v.elbow_value_[1]
                    /\ k_scores[i] = v.k_scores_
                    /\ Cardinality(SkmsOf(v.curr_label)) = 1
                    /\ \A j \in SkmsOf(v.curr_label) : skms[j].n_clusters = k_vals[i]
        /\ \A j \in 1..Len(skms) : skms[j].n_clusters # -1
        /\ Len(skms) = Cardinality({i \in 1..Len(k_vals) : k_vals[i] # -1})
        /\ pc = "returned" =>
            /\ Len(k_vals) = Cardinality(DistinctLabels)
            /\ Len(k_scores) = Cardinality(DistinctLabels)
    /\ (fn = "try_fit_skms" /\ pc = "raised") => visualizers = <<>>

\* C1 witness: try_fit_skms has returned with one label without an elbow and
\* one with an elbow
C1_Witness ==
    /\ fn = "try_fit_skms"
    /\ pc = "returned"
    /\ \E i, j \in 1..Len(k_vals) : k_vals[i] = -1 /\ k_vals[j] # -1

\* C2 (as claimed): in try_fit_skms and fit_skms the codebook of class c, and
\* the elbow search that chooses its k, are fitted only on slices of files
\* labelled c, for every train set with at least two distinct labels.
C2_FitOnOwnClassOnly ==
    (fn \in {"try_fit_skms", "fit_skms"} /\ Cardinality(DistinctLabels) >= 2) =>
        /\ \A j \in 1..Len(skms) :
              \A p \in 1..Len(skms[j].fit_data) :
                  LabelOfSlice(skms[j].fit_data[p]) = skms[j].curr_label
        /\ \A i \in 1..Len(visualizers) :
              \A p \in 1..Len(visualizers[i].fit_data) :
                  LabelOfSlice(visualizers[i].fit_data[p]) = visualizers[i].curr_label

\* C3 (as claimed): the codebook list fit_skms and try_fit_skms return has
\* exactly as many elements as the train data has distinct labels.
C3_OneCodebookPerLabel ==
    (fn \in {"try_fit_skms", "fit_skms"} /\ pc = "returned") =>
        Len(skms) = Cardinality(DistinctLabels)

\* labels whose elbow search found an elbow
LabelsWithElbow ==
    {c \in DistinctLabels :
        \E i \in 1..Len(visualizers) :
            visualizers[i].curr_label = c /\ visualizers[i].elbow_value_ # <<>>}

\* C3 (amended): fit_skms returns min(number of distinct labels,
\* len(configs.k_vals)) codebooks and try_fit_skms one codebook per distinct
\* label whose elbow search found an elbow; the list is never longer than
\* the number of distinct labels and is as long exactly when configs.k_vals
\* has at least that many entries, resp. every search found an elbow.
C3_CodebookCount ==
    /\ (fn = "fit_skms" /\ pc = "returned") =>
        /\ Len(skms) = Min(Cardinality(DistinctLabels), Len(cfg_k_vals))
        /\ (Len(skms) = Cardinality(DistinctLabels))
              <=> (Len(cfg_k_vals) >= Cardinality(DistinctLabels))
    /\ (fn = "try_fit_skms" /\ pc = "returned") =>
        /\ Len(skms) = Cardinality(LabelsWithElbow)
        /\ Len(skms) <= Cardinality(DistinctLabels)
        /\ (Len(skms) = Cardinality(DistinctLabels))
              <=> (\A i \in 1..Len(visualizers) : visualizers[i].elbow_value_ # <<>>)

\* C3 witness: fit_skms has returned fewer codebooks than labels because
\* configs.k_vals is short
C3_Witness ==
    /\ fn = "fit_skms"
    /\ pc = "returned"
    /\ Cardinality(DistinctLabels) = 2
    /\ Len(cfg_k_vals) = 1
    /\ Len(skms) = 1

\* C4 (as claimed): when generate_slice_dataset, try_fit_skms, fit_skms,
\* train_classifier or val_classifier returns normally the divide-by-zero
\* mode is the one in force before the call, so the warnings are suppressed
\* only while a batch loop is running.
C4_DivideModeRestoredOnReturn ==
    /\ (fn \in BatchFns /\ pc = "returned") => errDivide = preDivide
    /\ pc \in {"idle", "fitting", "returned"} => errDivide # "ignore"

\* C5 (as claimed): when batch materialization raises, the divide-by-zero
\* mode is back at its pre-call value when the exception leaves the function.
C5_DivideModeRestoredOnError ==
    (fn \in BatchFns /\ pc = "raised") => errDivide = preDivide

\* number of predictions of class 0
CountClass0(p) == Cardinality({i \in DOMAIN p : p[i] = 0})

\* C8: for a non-empty prediction sequence of labels 0 and 1,
\* infer_single_audio returns count(class 0) / total, between 0 and 1;
\* 9 of class 0 and 3 of class 1 give 0.75, all class 0 gives 1, all class 1
\* gives 0.
C8_BinaryConfidence ==
    (fn = "infer_single_audio" /\ pc = "returned"
        /\ pred # <<>> /\ Range(pred) \subseteq {0, 1}) =>
        /\ confidence.den > 0
        /\ confidence.num * Len(pred) = CountClass0(pred) * confidence.den
        /\ 0 <= confidence.num
        /\ confidence.num <= confidence.den
        /\ (CountClass0(pred) = 9 /\ Len(pred) = 12) => 4 * confidence.num = 3 * confidence.den
        /\ Range(pred) = {0} => confidence.num = confidence.den
        /\ Range(pred) = {1} => confidence.num = 0

\* C8 witness: infer_single_audio has returned for 9 predictions of class 0
\* and 3 of class 1
C8_Witness ==
    /\ fn = "infer_single_audio"
    /\ pc = "returned"
    /\ Len(pred) = 12
    /\ CountClass0(pred) = 9
    /\ Range(pred) = {0, 1}

\* names of the stages a batch went through, in order
StageNames(stages) == [i \in 1..Len(stages) |-> stages[i].fn]

\* C9: white-noise augmentation occurs only in train_classifier's pipeline,
\* as its first stage; val_classifier and infer_single_audio never apply it;
\* apart from it train_classifier and val_classifier run the same ordered
\* stages (Mel, slice-flatten, codebook projection, pooling) with the same
\* configurations and codebooks, each stage on the previous stage's output.
C9_NoiseOnlyInTraining ==
    /\ \A b \in 1..Len(batches_tmp) :
        LET run == batches_tmp[b].applied
        IN /\ fn = "train_classifier" =>
                /\ Len(run) = 5
                /\ run[1] = Stage("add_white_noise_collate", "configs.sound_wave_augment_config")
                /\ Tail(run) = <<Stage("mel_spectrogram_collate", "configs.mel_spec_config"),
                                 Stage("slice_flatten_collate", "configs.reshape_config"),
                                 Stage("skm_skl_proj_collate", "skms"),
                                 Stage("pool_collate", "configs.pool_config")>>
           /\ fn = "val_classifier" =>
                run = <<Stage("mel_spectrogram_collate", "configs.mel_spec_config"),
                        Stage("slice_flatten_collate", "configs.reshape_config"),
                        Stage("skm_skl_proj_collate", "skms"),
                        Stage("pool_collate", "configs.pool_config")>>
           /\ fn # "train_classifier" =>
                \A i \in 1..Len(run) : run[i].fn # "add_white_noise_collate"
           /\ \A i \in 2..Len(run) : run[i].fn # "add_white_noise_collate"
    /\ fn # "train_classifier" =>
          \A i \in 1..Len(collate_funcs) : collate_funcs[i].fn # "add_white_noise_collate"
    /\ \A i \in 1..Len(applied) : applied[i].fn # "add_white_noise_collate"
    /\ (fn = "infer_single_audio" /\ pc = "returned") =>
          StageNames(applied) = <<"transform_mel_spectrogram", "slice_spectrogram",
                                  "flatten_slice", "proj_skl_skm", "apply_pool_func">>

\* C9 witness: val_classifier has returned after at least one batch went
\* through its pipeline
C9_Witness ==
    /\ fn = "val_classifier"
    /\ pc = "returned"
    /\ Len(batches_tmp) >= 1

RECURSIVE SliceCount(_, _)
\* number of slices of the first n files
SliceCount(fs, n) == IF n = 0 THEN 0 ELSE SliceCount(fs, n - 1) + Len(fs[n])

\* C10: for a SliceDataset with as many labels as files, convert_to_ndarray
\* returns slices and labels of the same length, the sum of the files' slice
\* counts; slices are in file order and in their order inside a file; the
\* label at a position is the label of the file the slice there came from.
C10_SlicesKeepFileLabel ==
    (/\ \/ fn = "convert_to_ndarray" /\ pc \in {"returned", "raised"}
        \/ fn \in {"try_fit_skms", "fit_skms"} /\ pc \in {"fitting", "returned"}
     /\ Len(dataset.labels) = Len(dataset.flat_slices)) =>
        /\ pc # "raised"
        /\ Len(slices) = SliceCount(dataset.flat_slices, Len(dataset.flat_slices))
        /\ Len(labels) = Len(slices)
        /\ \A i \in 1..Len(dataset.flat_slices) :
              \A j \in 1..Len(dataset.flat_slices[i]) :
                  LET pos == SliceCount(dataset.flat_slices, i - 1) + j
                  IN /\ slices[pos] = dataset.flat_slices[i][j]
                     /\ labels[pos] = dataset.labels[i]

\* C10 witness: convert_to_ndarray has returned for two files of different
\* labels and different slice counts
C10_Witness ==
    /\ fn = "convert_to_ndarray"
    /\ pc = "returned"
    /\ Len(dataset.labels) = 2
    /\ dataset.labels[1] # dataset.labels[2]
    /\ Len(dataset.flat_slices[1]) = 2
    /\ Len(dataset.flat_slices[2]) = 1
    /\ Len(slices) = 3

\* C6: stft_spectrogram_collate and mel_spectrogram_collate return one
\* tuple per input tuple, the i-th carrying the filename and the label of the
\* i-th input tuple; only the waveform is replaced, by the spectrogram, the
\* frequency axis and the time axis computed from it.
C6_CollateKeepsOrder ==
    /\ pc = "collating" =>
        /\ Len(ret_data) <= Len(data)
        /\ \A i \in 1..Len(ret_data) :
            /\ ret_data[i][1] = data[i][1]
            /\ ret_data[i][5] = data[i][3]
    /\ (pc = "returned" /\ fn \in {"stft_spectrogram_collate", "mel_spectrogram_collate"}) =>
        /\ Len(ret_data) = Len(data)
        /\ \A i \in 1..Len(data) :
            /\ Len(ret_data[i]) = 5
            /\ ret_data[i][1] = data[i][1]
            /\ ret_data[i][5] = data[i][3]
            /\ \A c \in 2..4 : ret_data[i][c].args.sound_wave = data[i][2]
            /\ <<ret_data[i][2].result, ret_data[i][3].result, ret_data[i][4].result>>
                 = IF fn = "mel_spectrogram_collate"
                   THEN <<"mel_spec", "mel_freq", "mel_time">>
                   ELSE <<"stft_spec", "stft_freq", "stft_time">>

\* C6 witness: a collate function has returned for a batch of two tuples
\* that differ in filename and in label
C6_Witness ==
    /\ pc = "returned"
    /\ fn = "stft_spectrogram_collate"
    /\ Len(data) = 2
    /\ Len(ret_data) = 2
    /\ data[1][1] # data[2][1]
    /\ data[1][3] # data[2][3]

\* C7: mel_spectrogram_collate uses the same frequency upper bound for every
\* item of the batch: config.freq_max when it is > 0, sample_rate / 2 when it
\* is 0 or negative; the configuration object is left unchanged.
C7_FreqMaxDefaultsToNyquist ==
    (fn = "mel_spectrogram_collate" /\ pc \in {"collating", "returned"}) =>
        /\ config = config_before
        /\ \A i \in 1..Len(ret_data) :
              \A c \in 2..4 :
                  LET used == ret_data[i][c].args.freq_max
                  IN /\ used.den > 0
                     /\ config_before.freq_max > 0 =>
                            used.num = config_before.freq_max * used.den
                     /\ config_before.freq_max <= 0 =>
                            2 * used.num = config_before.sample_rate * used.den
                     /\ used = ret_data[1][2].args.freq_max

\* C7 witness: mel_spectrogram_collate has returned two items for a
\* configuration with freq_max = 0 and an odd sample rate
C7_Witness ==
    /\ fn = "mel_spectrogram_collate"
    /\ pc = "returned"
    /\ config_before.freq_max = 0
    /\ config_before.sample_rate = 1
    /\ Len(ret_data) = 2

\* a direct call of convert_to_ndarray has ended, one way or the other
ConvertEnded == fn = "convert_to_ndarray" /\ pc \in {"returned", "raised"}

\* C11: convert_to_ndarray fails, returning no arrays, when the dataset has
\* a different number of labels than of per-file slice lists; labels and
\* slice lists of different counts are never paired up to the shorter of the
\* two. (It fails for no other dataset.)
C11_MismatchFailsFast ==
    ConvertEnded =>
        /\ Len(dataset.labels) # Len(dataset.flat_slices) =>
              /\ pc = "raised"
              /\ slices = <<>>
              /\ labels = <<>>
        /\ pc = "raised" => Len(dataset.labels) # Len(dataset.flat_slices)

\* C11 witness: convert_to_ndarray has raised for a dataset of two labels
\* and one slice list that holds slices
C11_Witness ==
    /\ fn = "convert_to_ndarray"
    /\ pc = "raised"
    /\ Len(dataset.labels) = 2
    /\ Len(dataset.flat_slices) = 1
    /\ Len(dataset.flat_slices[1]) >= 1

\* files of the current dataset whose slice list is empty
ZeroSliceFiles == {i \in 1..Len(dataset.flat_slices) : dataset.flat_slices[i] = <<>>}

\* C12 (as claimed): when a SliceDataset contains a file whose slice list is
\* empty, convert_to_ndarray fails instead of returning arrays from which
\* that file and its label have disappeared.
C12_ZeroSliceFileIsError ==
    (ConvertEnded /\ ZeroSliceFiles # {}) => pc = "raised"

\* number of predictions of class 1
CountClass1(p) == Cardinality({i \in DOMAIN p : p[i] = 1})

\* C14: infer_single_audio divides the class-0 count by the class-0 count
\* plus the class-1 count, not by the number of predictions: for a prediction
\* sequence with a label of 2 or more and a positive class-0 count the value
\* differs from count(class 0) / total, and when no prediction is 0 or 1
\* (the empty sequence included) the division is 0 / 0.
C14_DividesByBinaryCount ==
    (fn = "infer_single_audio" /\ pc = "returned") =>
        /\ confidence.num = CountClass0(pred)
        /\ confidence.den = CountClass0(pred) + CountClass1(pred)
        /\ ((\E i \in DOMAIN pred : pred[i] >= 2) /\ CountClass0(pred) > 0) =>
              /\ confidence.den > 0
              /\ confidence.den < Len(pred)
              /\ confidence.num * Len(pred) # CountClass0(pred) * confidence.den
        /\ (\A i \in DOMAIN pred : pred[i] \notin {0, 1}) =>
              /\ confidence.num = 0
              /\ confidence.den = 0

\* C14 witness: infer_single_audio has returned for predictions 0, 1 and 2,
\* one of each
C14_Witness ==
    /\ fn = "infer_single_audio"
    /\ pc = "returned"
    /\ Len(pred) = 3
    /\ Range(pred) = {0, 1, 2}
    /\ confidence.num = 1
    /\ confidence.den = 2

\* equality of two fractions
SameFloat(a, b) == a.num * b.den = b.num * a.den

\* the argument a stage list binds to the stage named f
StageArg(stages, f) == {stages[i].arg : i \in {j \in 1..Len(stages) : stages[j].fn = f}}

\* C15 (as claimed): for every configuration, one with freq_max unset or
\* non-positive included, infer_single_audio computes the Mel spectrogram of
\* its file with the frequency upper bound mel_spectrogram_collate uses inside
\* val_classifier for the same configuration, and its slice, projection and
\* pooling steps use the same reshape config, codebooks and pool config.
C15_InferenceMatchesValidation ==
    (fn = "infer_single_audio" /\ pc = "returned") =>
        /\ mel_spec.args.sample_rate = configs.mel_spec_config.sample_rate
        /\ SameFloat(mel_spec.args.freq_max, EffectiveFreqMax(configs.mel_spec_config))
        /\ StageArg(applied, "slice_spectrogram")
             = StageArg(val_classifier_collate_funcs, "slice_flatten_collate")
        /\ StageArg(applied, "proj_skl_skm")
             = StageArg(val_classifier_collate_funcs, "skm_skl_proj_collate")
        /\ StageArg(applied, "apply_pool_func")
             = StageArg(val_classifier_collate_funcs, "pool_collate")

RECURSIVE CanonicalSteps(_)
\* the loop body's calls for folds 0, 1, ..., K - 1
CanonicalSteps(K) ==
    IF K <= 0 THEN <<>>
    ELSE CanonicalSteps(K - 1) \o [i \in 1..Len(FoldCalls) |-> <<K - 1, FoldCalls[i]>>]

\* fold and function of the calls made so far
StepIds == [i \in 1..Len(steps) |-> <<steps[i].fold, steps[i].call>>]

IsPrefix(a, b) == Len(a) <= Len(b) /\ a = SubSeq(b, 1, Len(a))

RECURSIVE UsesVal(_)
\* the value is a validation partition or was computed from one
UsesVal(t) == t.out = "val" \/ \E i \in 1..Len(t.args) : UsesVal(t.args[i])

\* the safety part of C13
C13_StepsInv ==
    fn = "main" =>
        /\ IsPrefix(StepIds, CanonicalSteps(k_folds))
        /\ \A i \in 1..Len(steps) : steps[i].raised => (i = Len(steps) /\ pc = "raised")
        /\ pc = "raised" => (steps = <<>> \/ steps[Len(steps)].raised)
        /\ pc = "main" => Len(steps) = Len(FoldCalls) * curr_val_fold + main_step - 1
        /\ pc = "returned" => StepIds = CanonicalSteps(k_folds)
        /\ \A i \in 1..Len(steps) :
            LET st == steps[i]
                f == st.fold
            IN /\ st.call = "load_skl_skms" => st.kw = <<f, n_classes>>
               /\ st.call = "generate_proj_dataset" =>
                    st.args = <<Term("load_skl_skms", "skms", f, <<f, n_classes>>, <<>>)>>
               /\ st.call = "fit_transform_pca" =>
                    /\ Len(st.args) = 1
                    /\ st.args[1].call = "generate_proj_dataset"
                    /\ st.args[1].out = "train"
                    /\ st.args[1].fold = f
               /\ st.call = "train_svc_np" =>
                    /\ Len(st.args) = 2
                    /\ \A a \in 1..2 :
                        /\ st.args[a].call = "fit_transform_pca"
                        /\ st.args[a].out = <<"train_slices", "train_labels">>[a]
                        /\ st.args[a].fold = f
               /\ st.call \in {"fit_transform_pca", "train_svc_np"} =>
                    \A a \in 1..Len(st.args) : ~UsesVal(st.args[a])
               /\ st.call = "transform_pca" =>
                    /\ Len(st.args) = 2
                    /\ st.args[1].call = "generate_proj_dataset"
                    /\ st.args[1].out = "val"
                    /\ st.args[1].fold = f
                    /\ st.args[2].call = "fit_transform_pca"
                    /\ st.args[2].out = "pca"
                    /\ st.args[2].fold = f
                    /\ ~UsesVal(st.args[2])
                    /\ \E j \in 1..(i - 1) :
                        /\ steps[j].call = "fit_transform_pca"
                        /\ steps[j].fold = f
                        /\ ~steps[j].raised
                        /\ steps[j].args = st.args[2].args
               /\ st.call = "report_slices_acc_np" =>
                    /\ Len(st.args) = 5
                    /\ \A a \in 1..5 : st.args[a].fold = f
                    /\ st.args[1].out = "svc"
                    /\ st.args[4].out = "val_slices"

\* C13: the calls made by the loop of pca_proj's main are always a prefix of
\* the canonical sequence: for fold 0, 1, ..., k_folds - 1 in this order,
\* each once, load the fold's codebooks, build the train and val projections,
\* fit the PCA on train, train the SVC on the PCA-transformed train data,
\* transform val with this fold's fitted PCA, report. No validation data goes
\* into a PCA or SVC fit, no call is made twice, a call that raises is the
\* last one, and a run without a failure ends after exactly k_folds folds.
C13_MainStepsCanonical ==
    /\ []C13_StepsInv
    /\ <>(fn = "main" /\ pc \in {"returned", "raised"})

\* C13 witness: main has returned after three folds
C13_Witness ==
    /\ fn = "main"
    /\ pc = "returned"
    /\ k_folds = 3
    /\ Len(steps) = 18
    /\ steps[17].args[2].fold = 2

====
